---- MODULE Spec2Model ----
(***************************************************************************)
(* A model of the ycrawler repository: the asyncio crawler YCrawler        *)
(* (ycrawler.py) with its URLFetcher (fetcher.py) and the parsers          *)
(* (parsers.py), and the standalone polling loop main() of main.py.        *)
(*                                                                         *)
(* asyncio runs every coroutine on one thread, so a step of a task runs    *)
(* from one await that suspends to the next: each action below is one such *)
(* step.  The outcome of a network or disk operation is an input, drawn    *)
(* when the await on it completes.                                         *)
(***************************************************************************)
EXTENDS Integers, Sequences, FiniteSets, TLC

\* ------------------------------------------------------------------ bounds
\* Story ids on the front page are 1..MaxUid.
MaxUid == 2
\* Iterations of the polling loop that are modelled.
MaxLoops == 2
\* Rows (tr.athing) of a front page document.
MaxRows == 2
\* Comment links of a discussion page.
MaxLinks == 1

Uids == 1..MaxUid
\* A front page row that parse_top_news skips (no id, no a.storylink, no href).
NoId == 0

Min(a, b) == IF a < b THEN a ELSE b

SeqsUpTo(S, n) == UNION {[1..k -> S] : k \in 0..n}

\* The front page documents that have content: their rows, in rank order.
FrontPages == SeqsUpTo(Uids \cup {NoId}, MaxRows)

\* ------------------------------------------------------------- fetch_page
\* How one session.get and the reading of its response can end.
ContentOutcomes == {"text", "bytes"}
\* A 2xx response with an empty body: content is '' (or b''), which is falsy.
EmptyOutcomes == {"empty"}
\* Raised inside the inner try: UnicodeDecodeError, and any other Exception.
InnerCaught == {"decode_error", "payload_error"}
\* Raised by session.get and caught by the outer handlers.
OuterCaught == {"timeout", "invalid_url", "response_error", "os_error"}
\* Raised where no handler catches it: response.headers['Content-Type'] of a
\* response without that header (KeyError, outside the inner try), and a
\* ClientConnectionError that is no ClientOSError (ServerDisconnectedError).
Uncaught == {"no_content_type", "disconnected"}

FetchOutcomes == ContentOutcomes \cup EmptyOutcomes \cup InnerCaught \cup OuterCaught \cup Uncaught
\* MAIN_PAGE_URL and COMMENT_PAGE_URL are well-formed constants.
FixedUrlOutcomes == FetchOutcomes \ {"invalid_url"}

\* fetch_page on outcome o: it raises, or returns a FetchResult whose content
\* is truthy or not; errors is incremented on the handled failure branches.
FetchPage(o) ==
    [raised  |-> o \in Uncaught,
     content |-> o \in ContentOutcomes,
     error   |-> o \in (InnerCaught \cup OuterCaught)]

NewFetcher == [fetched |-> 0, download |-> 0, errors |-> 0]
\* self.fetched += 1, before the request
FetchStarted(f) == [f EXCEPT !.fetched = @ + 1]
\* self.errors += 1 in each except branch
FetchEnded(f, o) == IF FetchPage(o).error THEN [f EXCEPT !.errors = @ + 1] ELSE f
\* self.download += 1 after the write
Downloaded(f) == [f EXCEPT !.download = @ + 1]

\* ---------------------------------------------------------------- parsers
\* A parser that counts only the rows it yields against the limit.
ParseTopNews_LimitYielded(rows, lim) ==
    LET valid == SelectSeq(rows, LAMBDA r : r # NoId) IN SubSeq(valid, 1, Min(lim, Len(valid)))

\* parse_top_news: the first `lim` rows, those without id or link skipped.
ParseTopNews(rows, lim) ==
    SelectSeq(SubSeq(rows, 1, Min(lim, Len(rows))), LAMBDA r : r # NoId)

\* ------------------------------------------------------------------ state
VARIABLES
    limit,        \* YCrawler.limit
    dry_run,      \* YCrawler.dry_run
    scheduled,    \* YCrawler.scheduled
    visited,      \* YCrawler.visited
    loop_number,  \* run's loop_number
    run_pc,       \* where run is: "loop" (about to create a task) or "sleep"
    cycles,       \* the process_main_page task of each loop_number, and its callback
    tasks,        \* the process_page tasks, in creation order
    main,         \* main.py: the locals of main() and its process_page tasks
    twin,         \* one process_page run twice on the same responses: dry_run and not
    launch        \* one run of the parse-and-launch loop of process_main_page

\* The two harnesses; they are off while the crawler or main() runs.
harness == <<twin, launch>>

vars == <<limit, dry_run, scheduled, visited, loop_number, run_pc, cycles, tasks, main, harness>>

Loops == 0..(MaxLoops - 1)

\* skipped: the uids of top_news the for loop passed over with `continue`.
NoCycle ==
    [pc |-> "none", front |-> "none", skipped |-> {}, ret |-> "pending", results |-> <<>>,
     cb |-> "pending", fetcher |-> NewFetcher]

\* disc: what fetch_results.content of the discussion page was; comments: the
\* length of comments_links.
NewTask(c, uid) ==
    [cycle |-> c, uid |-> uid, pc |-> "start", download_result |-> "none",
     disc |-> "none", comments |-> 0, todo |-> 0, links |-> <<>>]

\* save_to_dir of a story: os.path.join(self.download_dir, uid)
StoryDir == <<"download_dir", "uid">>

\* os.path.join(save_to_dir, 'links')
LinkDir == Append(StoryDir, "links")

\* A link task that saves beside the story's page.
NewLink_StoryDir == [pc |-> "start", result |-> "none", save_to_dir |-> StoryDir]

\* The fetch_and_download task of a comment link.
NewLink == [pc |-> "start", result |-> "none", save_to_dir |-> LinkDir]

\* main() is not running.
MainOff ==
    [pc |-> "off", page_limit |-> 0, dry_run |-> FALSE, visited |-> {}, fetches |-> 0,
     front |-> "none", news |-> <<>>, tasks |-> <<>>]

\* The harnesses are not running.
TwinOff == [pc |-> "off"]

LaunchOff == [pc |-> "off"]

Init ==
    /\ main = MainOff
    /\ twin = TwinOff
    /\ launch = LaunchOff
    /\ limit \in 1..MaxRows
    /\ dry_run \in BOOLEAN
    /\ scheduled = {}
    /\ visited = {}
    /\ loop_number = 0
    /\ run_pc = "loop"
    /\ cycles = [c \in Loops |-> NoCycle]
    /\ tasks = <<>>

\* -------------------------------------------------------------------- run
\* One iteration of run's while loop up to its await: create the task, add the
\* callback, count the loop, go to sleep.
RunIterate ==
    /\ run_pc = "loop"
    /\ loop_number < MaxLoops
    /\ cycles' = [cycles EXCEPT ![loop_number].pc = "created"]
    /\ loop_number' = loop_number + 1
    /\ run_pc' = "sleep"
    /\ UNCHANGED <<limit, dry_run, scheduled, visited, tasks, main, harness>>

\* A run that awaits the task after the sleep (`await task`): it goes on only
\* when process_main_page has returned, and an exception of the task ends it.
RunWake_AwaitsTask ==
    /\ run_pc = "sleep"
    /\ cycles[loop_number - 1].pc = "returned"
    /\ run_pc' = "loop"
    /\ UNCHANGED <<limit, dry_run, scheduled, visited, loop_number, cycles, tasks, main, harness>>

\* asyncio.sleep(repeat_interval) ends.  The task created before the sleep is
\* ahead of the wake-up in the loop's ready queue, so it has started.
RunWake ==
    /\ run_pc = "sleep"
    /\ cycles[loop_number - 1].pc # "created"
    /\ run_pc' = "loop"
    /\ UNCHANGED <<limit, dry_run, scheduled, visited, loop_number, cycles, tasks, main, harness>>

\* ------------------------------------------------------ fetch_and_download
DiskOutcomes == {"ok", "error"}

\* A fetch_and_download that starts the write and does not await it.
FadFetched_WriteNotAwaited(o, mk, dry) ==
    IF FetchPage(o).raised THEN [pc |-> "raised", result |-> "none"]
    ELSE IF ~FetchPage(o).content THEN [pc |-> "done", result |-> "failure"]
    ELSE [pc |-> "done", result |-> "success"]

\* fetch_and_download once its fetch_page has ended with outcome o: it returns
\* a DownloadResult (pc "done"), goes on to await the write (pc "write"), or
\* raises (pc "raised").  mk is how os.makedirs ends when it is called.
FadFetched(o, mk, dry) ==
    LET r == FetchPage(o) IN
    IF r.raised THEN [pc |-> "raised", result |-> "none"]
    ELSE IF ~r.content THEN [pc |-> "done", result |-> "failure"]
    ELSE IF dry THEN [pc |-> "done", result |-> "success"]
    ELSE IF mk = "error" THEN [pc |-> "raised", result |-> "none"]
    ELSE [pc |-> "write", result |-> "none"]

\* fetch_and_download once download_page has ended: aiofiles.open or the write
\* may raise OSError, which nothing catches.
FadWritten(w) ==
    IF w = "ok" THEN [pc |-> "done", result |-> "success"]
    ELSE [pc |-> "raised", result |-> "none"]

\* ------------------------------------------------------- process_main_page
\* A filter on visited alone, as in main() of main.py.
ShouldSkip_VisitedOnly(uid, sched, vis) == uid \in vis

\* The filter of process_main_page: `if uid in self.scheduled or uid in self.visited`.
ShouldSkip(uid, sched, vis) == uid \in sched \/ uid \in vis

\* The for loop over top_news: the uids a task is created for, in order, and
\* self.scheduled after the loop.
RECURSIVE Launch(_, _, _, _, _)
Launch(news, sched, vis, acc, skip) ==
    IF news = <<>> THEN [launched |-> acc, scheduled |-> sched, skipped |-> skip]
    ELSE IF ShouldSkip(Head(news), sched, vis)
         THEN Launch(Tail(news), sched, vis, acc, skip \cup {Head(news)})
         ELSE Launch(Tail(news), sched \cup {Head(news)}, vis, Append(acc, Head(news)), skip)

TasksOf(c) == {i \in DOMAIN tasks : tasks[i].cycle = c}

\* The first step of the process_main_page task: a URLFetcher of its own, and
\* fetch_page up to the request.
ProcessMainPageStart(c) ==
    /\ cycles[c].pc = "created"
    /\ cycles' = [cycles EXCEPT ![c].pc = "front_fetch",
                                ![c].fetcher = FetchStarted(NewFetcher)]
    /\ UNCHANGED <<limit, dry_run, scheduled, visited, loop_number, run_pc, tasks, main, harness>>

\* The front page fetch ends; process_main_page runs on to its return or to
\* its await of gather.
ProcessMainPageFetched(c) ==
    /\ cycles[c].pc = "front_fetch"
    /\ \E o \in FixedUrlOutcomes :
        LET r == FetchPage(o)
            f == FetchEnded(cycles[c].fetcher, o)
        IN
        IF r.raised THEN
            /\ cycles' = [cycles EXCEPT ![c].pc = "raised", ![c].front = "raised",
                                        ![c].ret = "exception"]
            /\ UNCHANGED <<scheduled, tasks>>
        ELSE IF ~r.content THEN
            /\ cycles' = [cycles EXCEPT ![c].pc = "returned", ![c].front = "empty",
                                        ![c].ret = "none", ![c].fetcher = f]
            /\ UNCHANGED <<scheduled, tasks>>
        ELSE \E rows \in FrontPages :
            LET l == Launch(ParseTopNews(rows, limit), scheduled, visited, <<>>, {}) IN
            /\ cycles' = [cycles EXCEPT
                            ![c].pc = IF l.launched = <<>> THEN "returned" ELSE "gather",
                            ![c].ret = IF l.launched = <<>> THEN "none" ELSE "pending",
                            ![c].front = "content", ![c].skipped = l.skipped,
                            ![c].fetcher = f]
            /\ tasks' = tasks \o [k \in 1..Len(l.launched) |-> NewTask(c, l.launched[k])]
            /\ scheduled' = l.scheduled
    /\ UNCHANGED <<limit, dry_run, visited, loop_number, run_pc, main, harness>>

\* A gather over the tasks of every loop, as with a task list kept on the
\* crawler.
ResultsOf_EveryLoop(c) ==
    [k \in 1..Len(tasks) |-> [uid |-> tasks[k].uid,
                              success |-> tasks[k].download_result = "success"]]

\* results of gather, in the order of the tasks
ResultsOf(c) ==
    LET idx == SelectSeq([k \in 1..Len(tasks) |-> k], LAMBDA k : tasks[k].cycle = c)
    IN [k \in 1..Len(idx) |-> [uid |-> tasks[idx[k]].uid,
                               success |-> tasks[idx[k]].download_result = "success"]]

\* await asyncio.gather(*tasks, return_exceptions=False) ends: with the first
\* exception of a task, or with every task's result.
ProcessMainPageGathered(c) ==
    /\ cycles[c].pc = "gather"
    /\ IF \E i \in TasksOf(c) : tasks[i].pc = "raised" THEN
            cycles' = [cycles EXCEPT ![c].pc = "raised", ![c].ret = "exception"]
       ELSE
            /\ \A i \in TasksOf(c) : tasks[i].pc = "done"
            /\ cycles' = [cycles EXCEPT ![c].pc = "returned", ![c].ret = "list",
                                        ![c].results = ResultsOf(c)]
    /\ UNCHANGED <<limit, dry_run, scheduled, visited, loop_number, run_pc, tasks, main, harness>>

\* ------------------------------------------------ after_main_page_processed
\* A reconciliation that forgets scheduled.remove.
ReconcileResult_NoRemove(r, sched, vis) ==
    [scheduled |-> sched, visited |-> vis \cup {r.uid}]

\* A reconciliation that lets a failed story be tried again.
ReconcileResult_RetryFailed(r, sched, vis) ==
    [scheduled |-> sched \ {r.uid},
     visited |-> IF r.success THEN vis \cup {r.uid} ELSE vis]

\* One round of the for loop over results: visited.add, scheduled.remove.
ReconcileResult(r, sched, vis) ==
    [scheduled |-> sched \ {r.uid}, visited |-> vis \cup {r.uid}]

\* The for loop; set.remove raises KeyError on a uid that is not in the set,
\* after visited.add of that uid.
RECURSIVE ReconcileAll(_, _, _)
ReconcileAll(results, sched, vis) ==
    IF results = <<>> THEN [scheduled |-> sched, visited |-> vis, raised |-> FALSE]
    ELSE LET r == Head(results)
             n == ReconcileResult(r, sched, vis)
         IN IF r.uid \notin sched
            THEN [scheduled |-> sched, visited |-> n.visited, raised |-> TRUE]
            ELSE ReconcileAll(Tail(results), n.scheduled, n.visited)

\* `for result in results`: iterating None raises TypeError.
Reconcile(ret, results, sched, vis) ==
    IF ret = "none" THEN [scheduled |-> sched, visited |-> vis, raised |-> TRUE]
    ELSE ReconcileAll(results, sched, vis)

\* A callback without the `if not results: return` guard.
NoResults_Never(ret, results) == FALSE

\* `if not results: return`
NoResults(ret, results) == ret = "none" \/ results = <<>>

\* The done callback of the process_main_page task of loop c.  task.result()
\* raises the task's exception; the event loop logs what a callback raises.
AfterMainPageProcessed(c) ==
    /\ cycles[c].pc \in {"returned", "raised"}
    /\ cycles[c].cb = "pending"
    /\ IF cycles[c].pc = "raised" THEN
            /\ cycles' = [cycles EXCEPT ![c].cb = "raised"]
            /\ UNCHANGED <<scheduled, visited>>
       ELSE IF NoResults(cycles[c].ret, cycles[c].results) THEN
            /\ cycles' = [cycles EXCEPT ![c].cb = "done"]
            /\ UNCHANGED <<scheduled, visited>>
       ELSE LET n == Reconcile(cycles[c].ret, cycles[c].results, scheduled, visited) IN
            /\ cycles' = [cycles EXCEPT ![c].cb = IF n.raised THEN "raised" ELSE "done"]
            /\ scheduled' = n.scheduled
            /\ visited' = n.visited
    /\ UNCHANGED <<limit, dry_run, loop_number, run_pc, tasks, main, harness>>

\* ------------------------------------------------------------ process_page
Fetcher(i) == cycles[tasks[i].cycle].fetcher

SetFetcher(i, f) == [cycles EXCEPT ![tasks[i].cycle].fetcher = f]

\* fetch_page started by each of n tasks
RECURSIVE FetchStartedBy(_, _)
FetchStartedBy(n, f) == IF n = 0 THEN f ELSE FetchStartedBy(n - 1, FetchStarted(f))

\* The first steps of the process_page tasks of loop c: fetch_and_download,
\* fetch_page up to the request.  process_main_page created them in one step,
\* so their first steps are next to each other in the loop's ready queue and
\* nothing runs between them.
PageStart(c) ==
    /\ \E i \in TasksOf(c) : tasks[i].pc = "start"
    /\ tasks' = [i \in DOMAIN tasks |->
                    IF tasks[i].cycle = c /\ tasks[i].pc = "start"
                    THEN [tasks[i] EXCEPT !.pc = "story_fetch"] ELSE tasks[i]]
    /\ cycles' = [cycles EXCEPT ![c].fetcher =
                    FetchStartedBy(Cardinality({i \in TasksOf(c) : tasks[i].pc = "start"}), @)]
    /\ UNCHANGED <<limit, dry_run, scheduled, visited, loop_number, run_pc, main, harness>>

\* The story's fetch ends.  When fetch_and_download returns, process_page goes
\* on to fetch_page of the discussion page, up to its request.
StoryFetched(i) ==
    /\ tasks[i].pc = "story_fetch"
    /\ \E o \in FetchOutcomes, mk \in DiskOutcomes :
        LET d == FadFetched(o, mk, dry_run)
            f == FetchEnded(Fetcher(i), o)
        IN
        CASE d.pc = "raised" ->
                /\ tasks' = [tasks EXCEPT ![i].pc = "raised"]
                /\ cycles' = SetFetcher(i, f)
          [] d.pc = "write" ->
                /\ tasks' = [tasks EXCEPT ![i].pc = "story_write"]
                /\ cycles' = SetFetcher(i, f)
          [] d.pc = "done" ->
                /\ tasks' = [tasks EXCEPT ![i].pc = "disc_fetch",
                                          ![i].download_result = d.result]
                /\ cycles' = SetFetcher(i, FetchStarted(f))
    /\ UNCHANGED <<limit, dry_run, scheduled, visited, loop_number, run_pc, main, harness>>

\* download_page of the story ends.
StoryWritten(i) ==
    /\ tasks[i].pc = "story_write"
    /\ \E w \in DiskOutcomes :
        LET d == FadWritten(w) IN
        IF d.pc = "raised" THEN
            /\ tasks' = [tasks EXCEPT ![i].pc = "raised"]
            /\ UNCHANGED cycles
        ELSE
            /\ tasks' = [tasks EXCEPT ![i].pc = "disc_fetch",
                                      ![i].download_result = d.result]
            /\ cycles' = SetFetcher(i, FetchStarted(Downloaded(Fetcher(i))))
    /\ UNCHANGED <<limit, dry_run, scheduled, visited, loop_number, run_pc, main, harness>>

\* The discussion page's fetch ends; n is the number of links parse_comments
\* yields, at most `most`.  The first link's task is created before the first
\* sleep(0).
DiscFetchedUpTo(i, most) ==
    /\ tasks[i].pc = "disc_fetch"
    /\ \E o \in FixedUrlOutcomes :
        LET r == FetchPage(o) IN
        /\ cycles' = SetFetcher(i, FetchEnded(Fetcher(i), o))
        /\ IF r.raised THEN
                tasks' = [tasks EXCEPT ![i].pc = "raised", ![i].disc = "raised"]
           ELSE IF ~r.content THEN
                tasks' = [tasks EXCEPT ![i].pc = "done", ![i].disc = "empty"]
           ELSE \E n \in 0..most :
                IF n = 0 THEN tasks' = [tasks EXCEPT ![i].pc = "done", ![i].disc = "content"]
                ELSE tasks' = [tasks EXCEPT ![i].pc = "spawn", ![i].disc = "content",
                                            ![i].comments = n, ![i].todo = n - 1,
                                            ![i].links = <<NewLink>>]
    /\ UNCHANGED <<limit, dry_run, scheduled, visited, loop_number, run_pc, main, harness>>

DiscFetched(i) == DiscFetchedUpTo(i, MaxLinks)

\* The first step of the link task created last (fetch_page up to the
\* request), and process_page resuming from await asyncio.sleep(0): the next
\* round of the loop over comments_links, or the await of gather after the
\* last.  create_task and sleep(0) put the two next to each other in the
\* loop's ready queue, the link's task first, so nothing runs between them.
SpawnResume(i) ==
    /\ tasks[i].pc = "spawn"
    /\ LET n == Len(tasks[i].links)
           started == [tasks[i].links EXCEPT ![n].pc = "fetch"]
       IN
       /\ tasks[i].links[n].pc = "start"
       /\ IF tasks[i].todo > 0
          THEN tasks' = [tasks EXCEPT ![i].todo = @ - 1,
                                      ![i].links = Append(started, NewLink)]
          ELSE tasks' = [tasks EXCEPT ![i].pc = "links_gather", ![i].links = started]
    /\ cycles' = SetFetcher(i, FetchStarted(Fetcher(i)))
    /\ UNCHANGED <<limit, dry_run, scheduled, visited, loop_number, run_pc, main, harness>>

\* await asyncio.gather(*link_tasks, return_exceptions=False) ends: with the
\* first exception of a link task, or when all are done; then
\* `return download_result`.
LinksGathered(i) ==
    /\ tasks[i].pc = "links_gather"
    /\ IF \E j \in DOMAIN tasks[i].links : tasks[i].links[j].pc = "raised" THEN
            tasks' = [tasks EXCEPT ![i].pc = "raised"]
       ELSE
            /\ \A j \in DOMAIN tasks[i].links : tasks[i].links[j].pc = "done"
            /\ tasks' = [tasks EXCEPT ![i].pc = "done"]
    /\ UNCHANGED <<limit, dry_run, scheduled, visited, loop_number, run_pc, cycles, main, harness>>

\* ------------------------------------- a comment link's fetch_and_download
LinkFetched(i, j) ==
    /\ tasks[i].links[j].pc = "fetch"
    /\ \E o \in FetchOutcomes, mk \in DiskOutcomes :
        LET d == FadFetched(o, mk, dry_run) IN
        /\ tasks' = [tasks EXCEPT ![i].links[j].pc = d.pc, ![i].links[j].result = d.result]
        /\ cycles' = SetFetcher(i, FetchEnded(Fetcher(i), o))
    /\ UNCHANGED <<limit, dry_run, scheduled, visited, loop_number, run_pc, main, harness>>

LinkWritten(i, j) ==
    /\ tasks[i].links[j].pc = "write"
    /\ \E w \in DiskOutcomes :
        LET d == FadWritten(w) IN
        /\ tasks' = [tasks EXCEPT ![i].links[j].pc = d.pc, ![i].links[j].result = d.result]
        /\ cycles' = IF d.pc = "done" THEN SetFetcher(i, Downloaded(Fetcher(i))) ELSE cycles
    /\ UNCHANGED <<limit, dry_run, scheduled, visited, loop_number, run_pc, main, harness>>

\* ------------------------------------------------------------ the crawler
Next ==
    \/ RunIterate
    \/ RunWake
    \/ \E c \in Loops : ProcessMainPageStart(c)
    \/ \E c \in Loops : ProcessMainPageFetched(c)
    \/ \E c \in Loops : ProcessMainPageGathered(c)
    \/ \E c \in Loops : AfterMainPageProcessed(c)
    \/ \E c \in Loops : PageStart(c)
    \/ \E i \in DOMAIN tasks : StoryFetched(i)
    \/ \E i \in DOMAIN tasks : StoryWritten(i)
    \/ \E i \in DOMAIN tasks : DiscFetched(i)
    \/ \E i \in DOMAIN tasks : SpawnResume(i)
    \/ \E i \in DOMAIN tasks : LinksGathered(i)
    \/ \E i \in DOMAIN tasks : \E j \in DOMAIN tasks[i].links : LinkFetched(i, j)
    \/ \E i \in DOMAIN tasks : \E j \in DOMAIN tasks[i].links : LinkWritten(i, j)

Spec == Init /\ [][Next]_vars

\* ================================================================ main.py
\* main() of main.py is the same crawl as one coroutine: it awaits the front
\* page, the tasks and the sleep in turn, and keeps only `visited`.  An
\* exception that leaves main() ends asyncio.run, and the process exits.
crawler == <<limit, dry_run, scheduled, visited, loop_number, run_pc, cycles, tasks>>

NewMainTask(uid) ==
    [uid |-> uid, pc |-> "start", download_result |-> "none", todo |-> 0, links |-> <<>>]

\* The crawler is not running.
InitMain ==
    /\ limit = 1
    /\ dry_run = FALSE
    /\ scheduled = {}
    /\ visited = {}
    /\ loop_number = 0
    /\ run_pc = "off"
    /\ cycles = [c \in Loops |-> NoCycle]
    /\ tasks = <<>>
    /\ twin = TwinOff
    /\ launch = LaunchOff
    /\ \E pl \in 1..MaxRows, dr \in BOOLEAN :
        main = [MainOff EXCEPT !.pc = "front_fetch", !.page_limit = pl, !.dry_run = dr,
                               !.fetches = 1]

\* `if uid in visited: continue`: the rest of top_news from its first uid that
\* is not visited.
RECURSIVE SkipVisited(_, _)
SkipVisited(news, vis) ==
    IF news = <<>> \/ Head(news) \notin vis THEN news ELSE SkipVisited(Tail(news), vis)

\* The for loop over top_news from `news` on, up to its next await: a task is
\* created for the next uid that is not visited and the loop sleeps (pc
\* "spawn"); or top_news is exhausted and main awaits gather, which is done at
\* once when there is no task.
MainSpawn(m, news) ==
    LET rest == SkipVisited(news, m.visited) IN
    IF rest # <<>> THEN
        [m EXCEPT !.pc = "spawn", !.news = Tail(rest),
                  !.tasks = Append(@, NewMainTask(Head(rest)))]
    ELSE IF m.tasks = <<>> THEN [m EXCEPT !.pc = "sleep", !.news = <<>>]
    ELSE [m EXCEPT !.pc = "gather", !.news = <<>>]

\* The next iteration of `while True`: fetch_page of the front page, up to the
\* request.  The model stops at the bound on the fetches.
MainIterate(m) ==
    IF m.fetches < MaxLoops
    THEN [m EXCEPT !.pc = "front_fetch", !.fetches = @ + 1, !.tasks = <<>>, !.news = <<>>]
    ELSE [m EXCEPT !.pc = "bound"]

\* The front page fetch ends.  Without content main logs and continues with
\* the next iteration; with content it starts the loop over top_news.
MainFetched ==
    /\ main.pc = "front_fetch"
    /\ \E o \in FixedUrlOutcomes :
        LET r == FetchPage(o) IN
        IF r.raised THEN main' = [main EXCEPT !.pc = "crashed", !.front = "raised"]
        ELSE IF ~r.content THEN main' = MainIterate([main EXCEPT !.front = "empty"])
        ELSE \E rows \in FrontPages :
            main' = MainSpawn([main EXCEPT !.front = "content"],
                              ParseTopNews(rows, main.page_limit))
    /\ UNCHANGED <<crawler, harness>>

\* The first step of the process_page task created last, and main resuming
\* from await asyncio.sleep(0) in the loop over top_news; the two are next to
\* each other in the loop's ready queue.
MainSpawnResume ==
    /\ main.pc = "spawn"
    /\ main.tasks[Len(main.tasks)].pc = "start"
    /\ main' = MainSpawn([main EXCEPT !.tasks[Len(main.tasks)].pc = "story_fetch"], main.news)
    /\ UNCHANGED <<crawler, harness>>

\* await asyncio.gather(*tasks, return_exceptions=False) ends: the first
\* exception of a task leaves main(); else every result's uid is visited,
\* and main sleeps.
MainGathered ==
    /\ main.pc = "gather"
    /\ IF \E i \in DOMAIN main.tasks : main.tasks[i].pc = "raised" THEN
            main' = [main EXCEPT !.pc = "crashed"]
       ELSE
            /\ \A i \in DOMAIN main.tasks : main.tasks[i].pc = "done"
            /\ main' = [main EXCEPT !.pc = "sleep",
                           !.visited = @ \cup {main.tasks[i].uid : i \in DOMAIN main.tasks}]
    /\ UNCHANGED <<crawler, harness>>

\* asyncio.sleep(repeat_interval) ends.
MainWake ==
    /\ main.pc = "sleep"
    /\ main' = MainIterate(main)
    /\ UNCHANGED <<crawler, harness>>

\* --------------------------------------------- process_page of main.py
MainTaskStoryFetched(i) ==
    /\ main.tasks[i].pc = "story_fetch"
    /\ \E o \in FetchOutcomes, mk \in DiskOutcomes :
        LET d == FadFetched(o, mk, main.dry_run) IN
        CASE d.pc = "raised" -> main' = [main EXCEPT !.tasks[i].pc = "raised"]
          [] d.pc = "write" -> main' = [main EXCEPT !.tasks[i].pc = "story_write"]
          [] d.pc = "done" -> main' = [main EXCEPT !.tasks[i].pc = "disc_fetch",
                                                   !.tasks[i].download_result = d.result]
    /\ UNCHANGED <<crawler, harness>>

MainTaskStoryWritten(i) ==
    /\ main.tasks[i].pc = "story_write"
    /\ \E w \in DiskOutcomes :
        LET d == FadWritten(w) IN
        IF d.pc = "raised" THEN main' = [main EXCEPT !.tasks[i].pc = "raised"]
        ELSE main' = [main EXCEPT !.tasks[i].pc = "disc_fetch",
                                  !.tasks[i].download_result = d.result]
    /\ UNCHANGED <<crawler, harness>>

MainTaskDiscFetched(i) ==
    /\ main.tasks[i].pc = "disc_fetch"
    /\ \E o \in FixedUrlOutcomes :
        LET r == FetchPage(o) IN
        IF r.raised THEN main' = [main EXCEPT !.tasks[i].pc = "raised"]
        ELSE IF ~r.content THEN main' = [main EXCEPT !.tasks[i].pc = "done"]
        ELSE \E n \in 0..MaxLinks :
            IF n = 0 THEN main' = [main EXCEPT !.tasks[i].pc = "done"]
            ELSE main' = [main EXCEPT !.tasks[i].pc = "spawn", !.tasks[i].todo = n - 1,
                                      !.tasks[i].links = <<NewLink>>]
    /\ UNCHANGED <<crawler, harness>>

MainTaskLinkSpawnResume(i) ==
    /\ main.tasks[i].pc = "spawn"
    /\ LET n == Len(main.tasks[i].links)
           started == [main.tasks[i].links EXCEPT ![n].pc = "fetch"]
       IN
       /\ main.tasks[i].links[n].pc = "start"
       /\ IF main.tasks[i].todo > 0
          THEN main' = [main EXCEPT !.tasks[i].todo = @ - 1,
                                    !.tasks[i].links = Append(started, NewLink)]
          ELSE main' = [main EXCEPT !.tasks[i].pc = "links_gather",
                                    !.tasks[i].links = started]
    /\ UNCHANGED <<crawler, harness>>

MainTaskLinksGathered(i) ==
    /\ main.tasks[i].pc = "links_gather"
    /\ IF \E j \in DOMAIN main.tasks[i].links : main.tasks[i].links[j].pc = "raised" THEN
            main' = [main EXCEPT !.tasks[i].pc = "raised"]
       ELSE
            /\ \A j \in DOMAIN main.tasks[i].links : main.tasks[i].links[j].pc = "done"
            /\ main' = [main EXCEPT !.tasks[i].pc = "done"]
    /\ UNCHANGED <<crawler, harness>>

MainTaskLinkFetched(i, j) ==
    /\ main.tasks[i].links[j].pc = "fetch"
    /\ \E o \in FetchOutcomes, mk \in DiskOutcomes :
        LET d == FadFetched(o, mk, main.dry_run) IN
        main' = [main EXCEPT !.tasks[i].links[j].pc = d.pc, !.tasks[i].links[j].result = d.result]
    /\ UNCHANGED <<crawler, harness>>

MainTaskLinkWritten(i, j) ==
    /\ main.tasks[i].links[j].pc = "write"
    /\ \E w \in DiskOutcomes :
        LET d == FadWritten(w) IN
        main' = [main EXCEPT !.tasks[i].links[j].pc = d.pc, !.tasks[i].links[j].result = d.result]
    /\ UNCHANGED <<crawler, harness>>

\* The tasks run until main() is left.
MainRunning == main.pc \notin {"off", "crashed"}

NextMain ==
    \/ MainFetched
    \/ MainSpawnResume
    \/ MainGathered
    \/ MainWake
    \/ MainRunning /\ \E i \in DOMAIN main.tasks : MainTaskStoryFetched(i)
    \/ MainRunning /\ \E i \in DOMAIN main.tasks : MainTaskStoryWritten(i)
    \/ MainRunning /\ \E i \in DOMAIN main.tasks : MainTaskDiscFetched(i)
    \/ MainRunning /\ \E i \in DOMAIN main.tasks : MainTaskLinkSpawnResume(i)
    \/ MainRunning /\ \E i \in DOMAIN main.tasks : MainTaskLinksGathered(i)
    \/ MainRunning /\ \E i \in DOMAIN main.tasks :
            \E j \in DOMAIN main.tasks[i].links : MainTaskLinkFetched(i, j)
    \/ MainRunning /\ \E i \in DOMAIN main.tasks :
            \E j \in DOMAIN main.tasks[i].links : MainTaskLinkWritten(i, j)

SpecMain == InitMain /\ [][NextMain]_vars

\* ======================================================= dry_run and not
\* One process_page execution run twice against the same responses: once by
\* a crawler with dry_run=True and once by one with dry_run=False, each with a
\* URLFetcher of its own.  The response of every request is drawn once and
\* given to both; only the run that writes meets the disk.

\* Bound on the comment links of the discussion page of the twin runs.
MaxTwinLinks == 2

\* Content-Type headers: a media type and, for some, parameters after ';'.
ContentTypes ==
    {<<"text/html", "charset=utf-8">>, <<"application/pdf">>, <<"image/png">>,
     <<"application/x-unknown">>}

\* content_type.partition(';')[0].strip()
MediaType(ct) == ct[1]

PyNone == [type |-> "NoneType", value |-> ""]

PyStr(s) == [type |-> "str", value |-> s]

\* mimetypes.guess_extension: None for a type it does not know.
GuessExtension(mime) ==
    CASE mime = "text/html" -> PyStr(".html")
      [] mime = "application/pdf" -> PyStr(".pdf")
      [] mime = "image/png" -> PyStr(".png")
      [] OTHER -> PyNone

\* The ext of the FetchResult: guessed from the header when a response is
\* returned, None on the failure branches.
FetchExt(o, ct) ==
    IF FetchPage(o).content \/ o \in EmptyOutcomes THEN GuessExtension(MediaType(ct))
    ELSE PyNone

\* What '%s' makes of a value: str(None) is 'None'.
Str(v) == IF v.type = "NoneType" THEN "None" ELSE v.value

\* '%s%s' % (uid, ext): a string is the sequence of its non-empty pieces.
Format(uid, ext) == SelectSeq(<<Str(uid), Str(ext)>>, LAMBDA p : p # "")

\* os.path.join(save_to_dir, '%s%s' % (uid, fetch_result.ext))
FilePath(save_to_dir, uid, ext) == <<save_to_dir, Format(uid, ext)>>

\* filepath=None of a DownloadResult
NoPath == <<>>

StoryUid == PyStr("uid")

LinkUid == PyStr("link_uid")

\* A run of process_page: where it is, its fetcher, the fetch_page calls
\* that returned a response, the fetch_and_download calls that touched the
\* file system, and what each fetch_and_download gave (a DownloadResult, or
\* an exception), with the Content-Type its request was answered with.
NewRun(dry) ==
    [dry_run |-> dry, pc |-> "story", fetcher |-> NewFetcher, responses |-> 0,
     fsops |-> 0, results |-> <<>>]

\* One fetch_page call of run r that ends with outcome o.
RunFetchPage(r, o) ==
    [r EXCEPT !.fetcher = FetchEnded(FetchStarted(@), o),
              !.responses = IF FetchPage(o).raised \/ FetchPage(o).error THEN @ ELSE @ + 1]

\* One fetch_and_download call of run r, from its fetch_page to its return
\* or its exception.
RunFetchAndDownload(r, dir, uid, o, ct, mk, w) ==
    LET r1 == RunFetchPage(r, o)
        d == FadFetched(o, mk, r.dry_run)
        path == FilePath(dir, uid, FetchExt(o, ct))
        exception == [success |-> "exception", filepath |-> NoPath, content_type |-> ct]
        result == [success |-> "success", filepath |-> path, content_type |-> ct]
    IN
    CASE d.pc = "raised" ->
            [r1 EXCEPT !.results = Append(@, exception),
                       !.fsops = IF FetchPage(o).raised THEN @ ELSE @ + 1]
      [] d.pc = "done" ->
            [r1 EXCEPT !.results = Append(@,
                IF d.result = "success" THEN result
                ELSE [success |-> "failure", filepath |-> NoPath, content_type |-> ct])]
      [] d.pc = "write" ->
            IF FadWritten(w).pc = "done"
            THEN [r1 EXCEPT !.results = Append(@, result), !.fsops = @ + 1,
                            !.fetcher = Downloaded(@)]
            ELSE [r1 EXCEPT !.results = Append(@, exception), !.fsops = @ + 1]

\* process_page up to its second await: the story's fetch_and_download.
RunStory(r, o, ct, mk, w) ==
    LET n == RunFetchAndDownload(r, StoryDir, StoryUid, o, ct, mk, w) IN
    [n EXCEPT !.pc = IF n.results[Len(n.results)].success = "exception"
                     THEN "raised" ELSE "disc"]

\* The discussion page's fetch_page, with n links in the page.
RunDisc(r, o, n) ==
    IF r.pc # "disc" THEN r
    ELSE LET r1 == RunFetchPage(r, o) IN
         IF FetchPage(o).raised THEN [r1 EXCEPT !.pc = "raised"]
         ELSE IF ~FetchPage(o).content \/ n = 0 THEN [r1 EXCEPT !.pc = "returned"]
         ELSE [r1 EXCEPT !.pc = "links"]

\* The fetch_and_download of one comment link; after the last (last is TRUE) gather
\* ends, with the first exception of a link if there is one.
RunLink(r, o, ct, mk, w, last) ==
    IF r.pc # "links" THEN r
    ELSE LET n == RunFetchAndDownload(r, LinkDir, LinkUid, o, ct, mk, w) IN
         IF ~last THEN n
         ELSE IF \E k \in 2..Len(n.results) : n.results[k].success = "exception"
         THEN [n EXCEPT !.pc = "raised"]
         ELSE [n EXCEPT !.pc = "returned"]

\* The crawler and main() are not running.
InitTwin ==
    /\ limit = 1
    /\ dry_run = FALSE
    /\ scheduled = {}
    /\ visited = {}
    /\ loop_number = 0
    /\ run_pc = "off"
    /\ cycles = [c \in Loops |-> NoCycle]
    /\ tasks = <<>>
    /\ main = MainOff
    /\ launch = LaunchOff
    /\ twin = [pc |-> "story", todo |-> 0, dry |-> NewRun(TRUE), wet |-> NewRun(FALSE)]

TwinStory ==
    /\ twin.pc = "story"
    /\ \E o \in FetchOutcomes, ct \in ContentTypes, mk \in DiskOutcomes, w \in DiskOutcomes :
        twin' = [twin EXCEPT !.pc = "disc",
                             !.dry = RunStory(@, o, ct, mk, w),
                             !.wet = RunStory(@, o, ct, mk, w)]
    /\ UNCHANGED <<crawler, main, launch>>

TwinDisc ==
    /\ twin.pc = "disc"
    /\ \E o \in FixedUrlOutcomes, n \in 0..MaxTwinLinks :
        LET links == IF FetchPage(o).content THEN n ELSE 0 IN
        twin' = [twin EXCEPT !.pc = IF links = 0 THEN "end" ELSE "links",
                             !.todo = links,
                             !.dry = RunDisc(@, o, n),
                             !.wet = RunDisc(@, o, n)]
    /\ UNCHANGED <<crawler, main, launch>>

TwinLink ==
    /\ twin.pc = "links"
    /\ \E o \in FetchOutcomes, ct \in ContentTypes, mk \in DiskOutcomes, w \in DiskOutcomes :
        twin' = [twin EXCEPT !.pc = IF twin.todo = 1 THEN "end" ELSE "links",
                             !.todo = @ - 1,
                             !.dry = RunLink(@, o, ct, mk, w, twin.todo = 1),
                             !.wet = RunLink(@, o, ct, mk, w, twin.todo = 1)]
    /\ UNCHANGED <<crawler, main, launch>>

NextTwin ==
    \/ TwinStory
    \/ TwinDisc
    \/ TwinLink

SpecTwin == InitTwin /\ [][NextTwin]_vars

\* ================================================= the parse-and-launch loop
\* process_main_page from parse_top_news to the end of its for loop, on one
\* front page and from any scheduled and visited the crawler can have.  The
\* loop has no await: it is one step.
InitLaunch ==
    /\ limit \in 1..MaxRows
    /\ dry_run = FALSE
    /\ scheduled \in SUBSET Uids
    /\ visited \in SUBSET (Uids \ scheduled)
    /\ loop_number = 0
    /\ run_pc = "off"
    /\ cycles = [c \in Loops |-> NoCycle]
    /\ tasks = <<>>
    /\ main = MainOff
    /\ twin = TwinOff
    /\ \E rows \in FrontPages :
        launch = [pc |-> "parse", rows |-> rows, before |-> {}, launched |-> <<>>]

\* launched: the uids of the process_page tasks, in the order of create_task;
\* before: self.scheduled when the loop started.
LaunchLoop ==
    /\ launch.pc = "parse"
    /\ LET l == Launch(ParseTopNews(launch.rows, limit), scheduled, visited, <<>>, {}) IN
        /\ scheduled' = l.scheduled
        /\ launch' = [launch EXCEPT !.pc = "launched", !.before = scheduled,
                                    !.launched = l.launched]
    /\ UNCHANGED <<limit, dry_run, visited, loop_number, run_pc, cycles, tasks, main, twin>>

NextLaunch == LaunchLoop

SpecLaunch == InitLaunch /\ [][NextLaunch]_vars

\* ==================================================== one process_page
\* One execution of process_page with its comment link tasks, on a page with
\* more links than the crawl above is followed with: the state is the one
\* process_main_page leaves when it has launched story 1 in loop 0, and run
\* sleeps throughout.

\* Bound on the comment links of the discussion page here.
MaxPageLinks == 2

InitPage ==
    /\ limit = 1
    /\ dry_run \in BOOLEAN
    /\ scheduled = {1}
    /\ visited = {}
    /\ loop_number = 1
    /\ run_pc = "sleep"
    /\ cycles = [c \in Loops |->
                    IF c = 0
                    THEN [NoCycle EXCEPT !.pc = "gather", !.front = "content",
                                         !.fetcher = FetchStarted(NewFetcher)]
                    ELSE NoCycle]
    /\ tasks = <<NewTask(0, 1)>>
    /\ main = MainOff
    /\ twin = TwinOff
    /\ launch = LaunchOff

PageDiscFetched(i) == DiscFetchedUpTo(i, MaxPageLinks)

NextPage ==
    \/ PageStart(0)
    \/ \E i \in DOMAIN tasks : StoryFetched(i)
    \/ \E i \in DOMAIN tasks : StoryWritten(i)
    \/ \E i \in DOMAIN tasks : PageDiscFetched(i)
    \/ \E i \in DOMAIN tasks : SpawnResume(i)
    \/ \E i \in DOMAIN tasks : LinksGathered(i)
    \/ \E i \in DOMAIN tasks : \E j \in DOMAIN tasks[i].links : LinkFetched(i, j)
    \/ \E i \in DOMAIN tasks : \E j \in DOMAIN tasks[i].links : LinkWritten(i, j)

SpecPage == InitPage /\ [][NextPage]_vars

\* ================================================================ claims
Running(t) == t.pc \notin {"done", "raised"}

\* C1: over any sequence of polling cycles, overlapping ones included, each
\* story id is passed to at most one process_page task.
C1_AtMostOneTaskPerUid ==
    \A u \in Uids : Cardinality({i \in DOMAIN tasks : tasks[i].uid = u}) <= 1

\* A later cycle's filter passed over a uid whose task, of an earlier cycle,
\* is still running.
C1_Witness ==
    \E i \in DOMAIN tasks, c \in Loops :
        /\ tasks[i].cycle < c
        /\ tasks[i].uid \in cycles[c].skipped
        /\ Running(tasks[i])

\* C2: scheduled and visited are disjoint in every reachable state.
C2_ScheduledVisitedDisjoint == scheduled \cap visited = {}

\* One cycle has been reconciled while a story of another is scheduled.
C2_Witness ==
    /\ visited # {}
    /\ scheduled # {}
    /\ \E i, k \in DOMAIN tasks :
        /\ tasks[i].cycle # tasks[k].cycle
        /\ tasks[i].uid \in visited
        /\ tasks[k].uid \in scheduled

\* C3: ids move only forward, unseen -> scheduled -> visited: no step removes
\* an id from visited, an id leaves scheduled only in the step that puts it in
\* visited, an id enters visited only from scheduled, and scheduled \cup
\* visited never shrinks.
C3_ForwardOnly ==
    [][/\ visited \subseteq visited'
       /\ (scheduled \ scheduled') \subseteq (visited' \ visited)
       /\ (visited' \ visited) \subseteq scheduled
       /\ (scheduled \cup visited) \subseteq (scheduled' \cup visited')]_vars

\* A story whose fetch failed has been moved to visited.
C3_Witness ==
    \E c \in Loops : \E k \in DOMAIN cycles[c].results :
        /\ ~cycles[c].results[k].success
        /\ cycles[c].results[k].uid \in visited
        /\ cycles[c].results[k].uid \notin scheduled

\* C4: fetch_page never raises: however the request or the reading of the
\* response fails, it returns a FetchResult.  Stated of the calls whose
\* caller shows the exception: the front page's and the discussion page's.
C4_FetchPageNeverRaises ==
    /\ \A c \in Loops : cycles[c].front # "raised"
    /\ \A i \in DOMAIN tasks :
        ~(tasks[i].pc = "raised" /\ tasks[i].download_result # "none"
                                 /\ tasks[i].links = <<>>)

\* C5: fetch_and_download never raises: every failure of the fetch or of the
\* disk write gives a DownloadResult with success False, and success is True
\* only when content was obtained.  A link's task is one fetch_and_download
\* call; a process_page task that raised with no download_result did so in the
\* story's fetch_and_download.
C5_FetchAndDownloadNeverRaises ==
    /\ \A i \in DOMAIN tasks :
        /\ ~(tasks[i].pc = "raised" /\ tasks[i].download_result = "none")
        /\ \A j \in DOMAIN tasks[i].links : tasks[i].links[j].pc # "raised"
    /\ \A o \in FetchOutcomes, mk \in DiskOutcomes, dry \in BOOLEAN :
        FadFetched(o, mk, dry).result = "success" => FetchPage(o).content

\* What a finished process_page task gave its caller.
Returned(t) == IF t.pc = "done" THEN t.download_result ELSE "exception"

\* C6: process_page returns the story's own fetch_and_download result: two
\* executions with the same story result return the same, however the
\* discussion page's and the comment links' fetches end.
C6_StoryResultOnly ==
    \A i, k \in DOMAIN tasks :
        (/\ ~Running(tasks[i]) /\ ~Running(tasks[k])
         /\ tasks[i].download_result # "none"
         /\ tasks[i].download_result = tasks[k].download_result)
        => Returned(tasks[i]) = Returned(tasks[k])

\* C7: every id added to scheduled is moved to visited.  Only the callback of
\* the id's own loop moves it, and the callback runs once: so once it has run,
\* the ids of its loop are in visited.
C7_ScheduledEventuallyVisited ==
    \A i \in DOMAIN tasks :
        cycles[tasks[i].cycle].cb # "pending" => tasks[i].uid \in visited

\* C8: a cycle whose front page fetch yields no content launches no task,
\* changes neither scheduled nor visited, in process_main_page and in its
\* callback, and does not raise.
C8_EmptyFrontPageNoEffect ==
    [][\A c \in Loops :
        /\ (cycles[c].pc = "front_fetch" /\ cycles'[c].front = "empty")
            => /\ cycles'[c].pc = "returned"
               /\ UNCHANGED <<scheduled, visited, tasks>>
        /\ (cycles[c].front = "empty" /\ cycles[c].cb = "pending"
                                      /\ cycles'[c].cb # "pending")
            => /\ cycles'[c].cb = "done"
               /\ TasksOf(c) = {}
               /\ UNCHANGED <<scheduled, visited, tasks>>]_vars

\* The callback of a cycle with an empty front page has run while a story of
\* another cycle is scheduled.
C8_Witness ==
    \E c \in Loops :
        /\ cycles[c].front = "empty"
        /\ cycles[c].cb = "done"
        /\ scheduled # {}

\* C9: after a front page fetch without content, the next front page fetch
\* is issued only by the step that ends the sleep (here: in main() of main.py).
C9_SleepBeforeRefetch ==
    [][(main'.fetches > main.fetches /\ main'.front = "empty") => main.pc = "sleep"]_vars

\* C10: nothing that happens in a cycle stops or stalls run: it can always
\* take its next step, and a candidate the filter passed over was scheduled
\* or visited, so that a story that is new in a later cycle is launched.
C10_RunNeverStalls ==
    /\ run_pc \in {"loop", "sleep"}
    /\ (run_pc = "loop" /\ loop_number < MaxLoops) => ENABLED RunIterate
    /\ (run_pc = "sleep" /\ cycles[loop_number - 1].pc # "created") => ENABLED RunWake
    /\ \A c \in Loops : cycles[c].skipped \subseteq (scheduled \cup visited)

\* An exception of a page task has left a cycle, its callback has raised, and
\* a later cycle has launched a story.
C10_Witness ==
    \E c \in Loops, i, k \in DOMAIN tasks :
        /\ cycles[c].cb = "raised"
        /\ tasks[i].cycle = c
        /\ tasks[i].pc = "raised"
        /\ tasks[k].cycle > c

\* C11: dry-run purity: on the same fetch responses, the run with dry_run=True
\* touches the file system in no fetch_and_download call, and gives for the
\* story and for every comment link the same success flag as the run with
\* dry_run=False.
C11_DryRunPurity ==
    twin.pc = "end" =>
        /\ twin.dry.fsops = 0
        /\ [k \in DOMAIN twin.dry.results |-> twin.dry.results[k].success]
            = [k \in DOMAIN twin.wet.results |-> twin.wet.results[k].success]

\* C12: dry-run preserves the counters: on the same fetch responses, at the
\* end fetched, download and errors of the URLFetcher are the same with
\* dry_run=True as with dry_run=False.
C12_DryRunSameCounters ==
    twin.pc = "end" => twin.dry.fetcher = twin.wet.fetcher

\* C13: extension derivation: a DownloadResult with success True has the path
\* save_to_dir/(uid + extension), the extension being that of the media type
\* of the Content-Type header (.html for text/html; charset=utf-8, .pdf for
\* application/pdf), and nothing at all for a type that is not recognized.
C13_ExtensionDerivation ==
    \A r \in {twin.dry, twin.wet} : \A k \in DOMAIN r.results :
        LET mime == r.results[k].content_type[1]
            suffix == CASE mime = "text/html" -> <<".html">>
                        [] mime = "application/pdf" -> <<".pdf">>
                        [] mime = "image/png" -> <<".png">>
                        [] OTHER -> <<>>
            uid == IF k = 1 THEN "uid" ELSE "link_uid"
            dir == IF k = 1 THEN <<"download_dir", "uid">>
                   ELSE <<"download_dir", "uid", "links">>
        IN r.results[k].success = "success"
            => r.results[k].filepath = <<dir, <<uid>> \o suffix>>

\* C18: the counters of a URLFetcher: errors <= fetched, download <= fetched
\* - errors, and when no call is in flight fetched = errors + the number of
\* calls that returned a response.  No call is in flight between two steps of
\* the twin runs.
C18_CounterInvariants ==
    twin.pc # "off" =>
        \A r \in {twin.dry, twin.wet} :
            /\ r.fetcher.errors <= r.fetcher.fetched
            /\ r.fetcher.download <= r.fetcher.fetched - r.fetcher.errors
            /\ r.fetcher.fetched = r.fetcher.errors + r.responses

\* C14: in a cycle whose front page has content, process_page is launched
\* for exactly the candidates (the rows with an id among the first `limit`
\* rows) that are neither scheduled nor visited, once each and in rank order;
\* the same step adds exactly these ids to scheduled.
C14_LaunchSet ==
    launch.pc = "launched" =>
        LET rows == launch.rows
            ranked == 1..Min(limit, Len(rows))
            candidates == {rows[k] : k \in ranked} \ {NoId}
            launched == launch.launched
            Rank(u) == CHOOSE k \in ranked : rows[k] = u /\ \A j \in 1..(k - 1) : rows[j] # u
        IN
        /\ {launched[k] : k \in DOMAIN launched} = candidates \ (launch.before \cup visited)
        /\ Len(launched) <= limit
        /\ \A a, b \in DOMAIN launched : a < b => Rank(launched[a]) < Rank(launched[b])
        /\ scheduled = launch.before \cup {launched[k] : k \in DOMAIN launched}

\* Of two candidates the first was scheduled already and the second is
\* launched.
C14_Witness ==
    /\ launch.pc = "launched"
    /\ Len(launch.rows) = 2
    /\ launch.rows[1] \in launch.before
    /\ launch.launched = <<launch.rows[2]>>

\* C15: process_page completes, by returning or by raising, only when every
\* comment link task it created has finished.
C15_LinksFinishedAtCompletion ==
    \A i \in DOMAIN tasks :
        ~Running(tasks[i]) =>
            \A j \in DOMAIN tasks[i].links : tasks[i].links[j].pc \in {"done", "raised"}

\* C16: within one process_page execution the discussion page's fetch is
\* issued only after the story's fetch_and_download has completed, its write
\* included, and a comment link's fetch only after the discussion page's fetch
\* has completed.  fetched counts the requests issued: the front page's, the
\* story's, the discussion page's, the links'.
C16_FetchOrder ==
    \A i \in DOMAIN tasks :
        LET t == tasks[i]
            f == Fetcher(i)
            issued == Cardinality({j \in DOMAIN t.links : t.links[j].pc # "start"})
        IN
        /\ t.pc = "start" => f.fetched = 1
        /\ t.pc \in {"story_fetch", "story_write"} => f.fetched = 2 /\ t.disc = "none"
        /\ t.pc = "disc_fetch" =>
            /\ f.fetched = 3
            /\ t.download_result \in {"success", "failure"}
            /\ (t.download_result = "success" /\ ~dry_run) => f.download = 1
            /\ t.links = <<>>
        /\ t.links # <<>> => t.disc = "content" /\ f.fetched = 3 + issued

\* The story was written and a comment link's fetch is under way.
C16_Witness ==
    \E i \in DOMAIN tasks : \E j \in DOMAIN tasks[i].links :
        /\ tasks[i].links[j].pc = "fetch"
        /\ tasks[i].download_result = "success"
        /\ ~dry_run
        /\ Fetcher(i).download = 1

\* C17: comment link tasks are launched if and only if the discussion page's
\* fetch yielded content, whatever the story's result: none when it yielded
\* none, and one per link of parse_comments when it did, each with
\* save_to_dir/links as its directory.
C17_LinksIffDiscussionContent ==
    \A i \in DOMAIN tasks :
        LET t == tasks[i] IN
        /\ t.disc # "content" => t.links = <<>> /\ t.todo = 0 /\ t.comments = 0
        /\ t.disc \in {"empty", "raised"} => Fetcher(i).fetched = 3
        /\ Len(t.links) + t.todo = t.comments
        /\ (t.disc = "content" /\ t.pc \notin {"spawn", "disc_fetch"}) =>
            /\ Len(t.links) = t.comments
            /\ \A j \in DOMAIN t.links : t.links[j].pc # "start"
        /\ \A j \in DOMAIN t.links : t.links[j].save_to_dir = <<"download_dir", "uid", "links">>

\* The story's fetch failed and two comment links were launched.
C17_Witness ==
    \E i \in DOMAIN tasks :
        /\ tasks[i].download_result = "failure"
        /\ tasks[i].disc = "content"
        /\ tasks[i].comments = 2
        /\ tasks[i].pc = "links_gather"

\* C19: reconciliation is per cycle batch: an id is in visited only when
\* every process_page task of its cycle has finished, the ids of a cycle are
\* in visited all or none (they are moved in one callback step), an id that
\* is not yet moved is in scheduled, and no later cycle launches it again.
C19_BatchReconciliation ==
    /\ \A c \in Loops :
        LET ids == {tasks[i].uid : i \in TasksOf(c)} IN
        /\ (ids \cap visited # {}) =>
            /\ ids \subseteq visited
            /\ \A i \in TasksOf(c) : ~Running(tasks[i])
            /\ cycles[c].cb = "done"
        /\ (ids \cap visited = {}) => ids \subseteq scheduled
    /\ \A i, k \in DOMAIN tasks : tasks[i].uid = tasks[k].uid => i = k

\* A story has finished and is not reconciled, because another story of its
\* cycle is still running; a later cycle found it on the front page and
\* passed over it.
C19_Witness ==
    \E i, k \in DOMAIN tasks, c \in Loops :
        /\ tasks[i].cycle = tasks[k].cycle
        /\ tasks[i].pc = "done"
        /\ Running(tasks[k])
        /\ tasks[i].uid \in scheduled
        /\ tasks[i].cycle < c
        /\ tasks[i].uid \in cycles[c].skipped

\* C20: scheduled.remove(result.uid) in the callback never raises KeyError:
\* the uids of the results of a cycle that wait for the callback are in
\* scheduled, once each; a callback raises only what task.result() raises;
\* and a callback that has reconciled has moved every result of its cycle.
C20_RemoveNeverFails ==
    \A c \in Loops :
        LET results == cycles[c].results IN
        /\ (cycles[c].ret = "list" /\ cycles[c].cb = "pending") =>
            /\ \A k \in DOMAIN results : results[k].uid \in scheduled
            /\ \A j, k \in DOMAIN results : results[j].uid = results[k].uid => j = k
        /\ cycles[c].cb = "raised" => cycles[c].pc = "raised"
        /\ (cycles[c].ret = "list" /\ cycles[c].cb = "done") =>
            \A k \in DOMAIN results :
                results[k].uid \in visited /\ results[k].uid \notin scheduled

\* Two cycles overlap and the later is reconciled first.
C20_Witness ==
    \E c, d \in Loops :
        /\ c < d
        /\ cycles[d].ret = "list"
        /\ cycles[d].cb = "done"
        /\ TasksOf(c) # {}
        /\ cycles[c].cb = "pending"

====
